---- MODULE Spec2Model ----
(***************************************************************************)
(* aci_vmm_controller: one Ansible module, main(), that turns a flat       *)
(* record of parameters into an ACI distinguished name and a sequence of   *)
(* calls on the shared ACI client (ACIModule).  The module's own code is   *)
(* lib/ansible/modules/network/aci/aci_vmm_controller.py; AnsibleModule,   *)
(* ACIModule and the APIC behind them are collaborators, modelled here     *)
(* from their description in the specification.                            *)
(*                                                                         *)
(* Python strings are TLA+ strings, str.format is concatenation.  Python's *)
(* None is the reserved value None below, which no input string equals;    *)
(* '{}'.format(None) is the four characters "None".                        *)
(***************************************************************************)
EXTENDS Integers, Sequences, FiniteSets, TLC

VARIABLES
    args,       \* the task's arguments as the user wrote them: key -> value
    pc,         \* where main() stands
    params,     \* module.params, after AnsibleModule has resolved the arguments
    ctrlr_mo,   \* main's local ctrlr_mo (None when name is omitted)
    ctrlr_rn,   \* main's local ctrlr_rn
    aci,        \* the ACIModule object: url descriptor, existing, proposed, config
    calls,      \* the client methods main() has called in this invocation, in order
    result,     \* how the invocation ended and what it reported
    remote,     \* the controller profiles on the APIC
    remote0,    \* the APIC's content when this invocation started
    prev,       \* the invocation before this one: its arguments and its result
    run         \* number of the current invocation

vars == <<args, pc, params, ctrlr_mo, ctrlr_rn, aci, calls, result, remote, remote0, prev, run>>

None == "<None>"

\* Invocations of the module in one behaviour of SpecSeq.
MaxRuns == 2

-----------------------------------------------------------------------------
(* The module's tables *)

VM_PROVIDER_MAPPING_typo ==
    [ cloudfoundry |-> "CloudFoundry",
      kubernetes   |-> "Kubernetes",
      microsoft    |-> "Microsoft",
      openshift    |-> "OpenShift",
      openstack    |-> "OpenStack",
      redhat       |-> "RedHat",
      vmware       |-> "VMWare" ]

VM_PROVIDER_MAPPING ==
    [ cloudfoundry |-> "CloudFoundry",
      kubernetes   |-> "Kubernetes",
      microsoft    |-> "Microsoft",
      openshift    |-> "OpenShift",
      openstack    |-> "OpenStack",
      redhat       |-> "Redhat",
      vmware       |-> "VMware" ]

Providers == DOMAIN VM_PROVIDER_MAPPING

States == {"absent", "present", "query"}

Fields == {"name", "container", "credential", "description", "domain",
           "host_or_ip", "state", "vm_provider"}

\* argument_spec as main() builds it: per field its aliases (in list order),
\* its default and its choices ({} when any string is accepted).
argument_spec ==
    [ name        |-> [aliases |-> <<"credential_name", "credential_profile">>,
                       default |-> None, choices |-> {}],
      container   |-> [aliases |-> <<"datacenter">>,
                       default |-> None, choices |-> {}],
      credential  |-> [aliases |-> <<"credential_name, credential_profile">>,
                       default |-> None, choices |-> {}],
      description |-> [aliases |-> <<"descr">>,
                       default |-> None, choices |-> {}],
      domain      |-> [aliases |-> <<"domain_name", "domain_profile">>,
                       default |-> None, choices |-> {}],
      host_or_ip  |-> [aliases |-> <<"controller_hostname", "controller_ip">>,
                       default |-> None, choices |-> {}],
      state       |-> [aliases |-> <<>>,
                       default |-> "present", choices |-> States],
      vm_provider |-> [aliases |-> <<>>,
                       default |-> None, choices |-> Providers] ]

\* required_if: <<field, value, required fields>>
required_if_dropped == { <<"state", "present", {"domain"}>> }

required_if ==
    { <<"state", "absent", {"domain"}>>,
      <<"state", "present", {"domain"}>> }

\* The aliases the module's DOCUMENTATION promises, per field.
DOCUMENTATION_aliases ==
    [ name        |-> {"controller_name", "controller_profile"},
      container   |-> {"datacenter"},
      credential  |-> {"credential_name", "credential_profile"},
      description |-> {"descr"},
      domain      |-> {"domain_name", "domain_profile", "name"},
      host_or_ip  |-> {"controller_hostname", "controller_ip"},
      state       |-> {},
      vm_provider |-> {} ]

-----------------------------------------------------------------------------
(* AnsibleModule(argument_spec, required_if): argument resolution *)

Range(s) == { s[i] : i \in DOMAIN s }

AliasKeys(f) == Range(argument_spec[f].aliases)

LegalKeys == Fields \cup UNION { AliasKeys(f) : f \in Fields }

\* The value an argument record gives field f: the last supplied alias of the
\* alias list wins over the canonical key; an absent field takes its default.
Resolve(a, f) ==
    LET al   == argument_spec[f].aliases
        hits == { i \in DOMAIN al : al[i] \in DOMAIN a }
    IN  IF hits # {}
        THEN a[al[CHOOSE i \in hits : \A j \in hits : j <= i]]
        ELSE IF f \in DOMAIN a THEN a[f] ELSE argument_spec[f].default

Resolved(a) == [ f \in Fields |-> Resolve(a, f) ]

\* Fields the user supplied, under the canonical key or an alias.
Supplied(a) == { f \in Fields : f \in DOMAIN a \/ AliasKeys(f) \cap DOMAIN a # {} }

Unsupported(a) == DOMAIN a \ LegalKeys

BadChoice(a) ==
    { f \in Fields : /\ argument_spec[f].choices # {}
                     /\ Resolve(a, f) # None
                     /\ Resolve(a, f) \notin argument_spec[f].choices }

MissingRequired(a) ==
    UNION { r[3] \ Supplied(a) : r \in { q \in required_if : Resolve(a, q[1]) = q[2] } }

ArgumentsOk(a) ==
    /\ Unsupported(a) = {}
    /\ BadChoice(a) = {}
    /\ MissingRequired(a) = {}

-----------------------------------------------------------------------------
(* main(): the identifier and the payload *)

\* '{0}'.format(v)
Str(v) == IF v = None THEN "None" ELSE v

\* 'vmmp-{0}/dom-{1}/ctrlr-{2}'.format(VM_PROVIDER_MAPPING[vm_provider], domain, name)
RnFormat(vm_provider, domain, name) ==
    "vmmp-" \o VM_PROVIDER_MAPPING[vm_provider] \o "/dom-" \o Str(domain)
            \o "/ctrlr-" \o Str(name)

\* 'uni/vmmp-{0}/dom-{1}/ctrlr-{2}'.format(...)
MoFormat(vm_provider, domain, name) ==
    "uni/vmmp-" \o VM_PROVIDER_MAPPING[vm_provider] \o "/dom-" \o Str(domain)
                \o "/ctrlr-" \o Str(name)

\* if name is None: ctrlr_mo = None
ModuleObject_kept(name, mo) == mo

ModuleObject(name, mo) == IF name = None THEN None ELSE mo

\* The attributes of the payload() call: class_config and the tDn of the one
\* child vmmRsAcc.
AttrNames == {"descr", "hostOrIp", "name", "rootContName", "tDn"}

class_config(p) ==
    [ descr        |-> p.description,
      hostOrIp     |-> p.host_or_ip,
      name         |-> p.name,
      rootContName |-> p.container,
      tDn          |-> p.credential ]

\* if state == 'present' ... elif state == 'absent' ... : the call after get_existing
Branch_query_deletes(state) ==
    IF state = "present" THEN "payload" ELSE "delete_config"

Branch_absent_posts(state) ==
    IF state \in {"present", "absent"} THEN "payload" ELSE "exit_json"

Branch_swapped(state) ==
    IF state = "present" THEN "delete_config"
    ELSE IF state = "absent" THEN "payload"
    ELSE "exit_json"

Branch(state) ==
    IF state = "present" THEN "payload"
    ELSE IF state = "absent" THEN "delete_config"
    ELSE "exit_json"

-----------------------------------------------------------------------------
(* The ACI client and the APIC behind it *)

NoAttrs == [ k \in AttrNames |-> None ]

NoUrl == [ aci_class |-> None, aci_rn |-> None, module_object |-> None,
           target_filter |-> [name |-> None, ctrlr |-> None] ]

NewAci == [ url |-> NoUrl, existing |-> {}, proposed |-> NoAttrs,
            config |-> [attrs |-> NoAttrs, nonempty |-> FALSE],
            changed |-> FALSE, writes |-> 0 ]

NoResult == [ outcome |-> "none", error |-> "none", changed |-> FALSE,
              previous |-> {}, current |-> {} ]

LastSlash(s) == CHOOSE i \in 1..Len(s) :
                    /\ SubSeq(s, i, i) = "/"
                    /\ \A j \in (i+1)..Len(s) : SubSeq(s, j, j) # "/"

\* The distinguished name of the parent: everything up to the last "/".
Parent(dn) == SubSeq(dn, 1, LastSlash(dn))

\* What a read of the url returns: the one object when an object is addressed,
\* the controllers of the domain when module_object is unset (every controller
\* when no domain is given either).
Read(rem, url) ==
    IF url.module_object # None
    THEN { o \in rem : o.dn = url.module_object }
    ELSE IF url.target_filter.name = None
    THEN rem
    ELSE { o \in rem : Parent(o.dn) = Parent("uni/" \o url.aci_rn) }

\* The differences of the proposed attributes against an existing object.
Diff(proposed, o) ==
    [ k \in AttrNames |->
        IF proposed[k] # None /\ proposed[k] # o.attrs[k] THEN proposed[k] ELSE None ]

Merge(old, new) == [ k \in AttrNames |-> IF new[k] # None THEN new[k] ELSE old[k] ]

\* The APIC after a POST of attrs to dn: created, or updated in place.
Posted(rem, dn, attrs) ==
    IF \E o \in rem : o.dn = dn
    THEN { IF o.dn = dn THEN [o EXCEPT !.attrs = Merge(o.attrs, attrs)] ELSE o : o \in rem }
    ELSE rem \cup { [dn |-> dn, attrs |-> attrs] }

\* The APIC after a DELETE of dn.
Deleted(rem, dn) == { o \in rem : o.dn # dn }

-----------------------------------------------------------------------------
(* The arguments a task may carry *)

Empty == [ k \in {} |-> None ]

Combine(S, T) == { s @@ t : s \in S, t \in T }

ProviderArgs == {Empty} \cup { "vm_provider" :> v : v \in Providers }

\* Arguments of Spec: every field omitted or supplied, under its canonical key
\* or under an alias the documentation names.
TaskArgs ==
    Combine({Empty} \cup { "state" :> s : s \in States },
    Combine({Empty, "domain" :> "dom1", "domain_name" :> "dom2"},
    Combine({Empty, "name" :> "ctrl1", "controller_name" :> "ctrl2"},
    Combine({Empty, "credential" :> "cred1", "credential_name" :> "cred2"},
    Combine(ProviderArgs,
    Combine({Empty, "host_or_ip" :> "h1"},
    Combine({Empty, "descr" :> "text"},
            {Empty, "container" :> "dc1"})))))))

\* Arguments of SpecSeq, where invocations follow one another.
SeqArgs ==
    Combine({ "state" :> s : s \in States },
    Combine({Empty, "domain" :> "dom1"},
    Combine({Empty, "name" :> "ctrl1"},
    Combine({Empty, "vm_provider" :> "vmware", "vm_provider" :> "redhat"},
            {Empty, "host_or_ip" :> "h1", "host_or_ip" :> "h2"}))))

\* What the APIC may hold before the first invocation.
Ctrl1 == [ dn    |-> "uni/vmmp-VMware/dom-dom1/ctrlr-ctrl1",
           attrs |-> [NoAttrs EXCEPT !.name = "ctrl1", !.hostOrIp = "h0"] ]

RemoteInits == { {}, {Ctrl1} }

NoParams == [ f \in Fields |-> None ]

NoPrev == [ args |-> Empty, result |-> NoResult, config |-> [attrs |-> NoAttrs, nonempty |-> FALSE],
            writes |-> 0 ]

-----------------------------------------------------------------------------
(* main() *)

InitWith(A) ==
    /\ args \in A
    /\ pc = "start"
    /\ params = NoParams
    /\ ctrlr_mo = None
    /\ ctrlr_rn = None
    /\ aci = NewAci
    /\ calls = <<>>
    /\ result = NoResult
    /\ remote \in RemoteInits
    /\ remote0 = remote
    /\ prev = NoPrev
    /\ run = 1

Init == InitWith(TaskArgs)

InitSeq == InitWith(SeqArgs)

\* module = AnsibleModule(argument_spec=..., required_if=...): arguments that do
\* not validate end the invocation in fail_json before main() goes on.
Validate ==
    /\ pc = "start"
    /\ IF ArgumentsOk(args)
       THEN /\ params' = Resolved(args)
            /\ pc' = "build"
            /\ UNCHANGED result
       ELSE /\ result' = [NoResult EXCEPT !.outcome = "fail_json", !.error = "configuration"]
            /\ pc' = "done"
            /\ UNCHANGED params
    /\ UNCHANGED <<args, ctrlr_mo, ctrlr_rn, aci, calls, remote, remote0, prev, run>>

\* name = module.params['name'] ... ctrlr_mo = ...format(VM_PROVIDER_MAPPING[vm_provider], ...)
\* The dictionary has no key None: the lookup raises KeyError, which nothing catches.
BuildIdentifier ==
    /\ pc = "build"
    /\ IF params.vm_provider \in DOMAIN VM_PROVIDER_MAPPING
       THEN /\ ctrlr_mo' = ModuleObject(params.name,
                                MoFormat(params.vm_provider, params.domain, params.name))
            /\ ctrlr_rn' = RnFormat(params.vm_provider, params.domain, params.name)
            /\ pc' = "construct_url"
            /\ UNCHANGED result
       ELSE /\ result' = [NoResult EXCEPT !.outcome = "fault", !.error = "KeyError"]
            /\ pc' = "done"
            /\ UNCHANGED <<ctrlr_mo, ctrlr_rn>>
    /\ UNCHANGED <<args, params, aci, calls, remote, remote0, prev, run>>

\* aci = ACIModule(module); aci.construct_url(root_class=dict(...))
ConstructUrl ==
    /\ pc = "construct_url"
    /\ aci' = [aci EXCEPT !.url = [ aci_class     |-> "vmmCtrlrP",
                                    aci_rn        |-> ctrlr_rn,
                                    module_object |-> ctrlr_mo,
                                    target_filter |-> [name  |-> params.domain,
                                                       ctrlr |-> params.name] ]]
    /\ calls' = Append(calls, "construct_url")
    /\ pc' = "get_existing"
    /\ UNCHANGED <<args, params, ctrlr_mo, ctrlr_rn, result, remote, remote0, prev, run>>

\* aci.get_existing()
GetExisting ==
    /\ pc = "get_existing"
    /\ aci' = [aci EXCEPT !.existing = Read(remote, aci.url)]
    /\ calls' = Append(calls, "get_existing")
    /\ pc' = Branch(params.state)
    /\ UNCHANGED <<args, params, ctrlr_mo, ctrlr_rn, result, remote, remote0, prev, run>>

\* aci.payload(aci_class=..., class_config=dict(...), childConfigs=[...])
Payload ==
    /\ pc = "payload"
    /\ aci' = [aci EXCEPT !.proposed = class_config(params)]
    /\ calls' = Append(calls, "payload")
    /\ pc' = "get_diff"
    /\ UNCHANGED <<args, params, ctrlr_mo, ctrlr_rn, result, remote, remote0, prev, run>>

\* aci.get_diff(aci_class=controller_class): against the first existing object,
\* or the whole proposal when nothing exists.
GetDiff ==
    /\ pc = "get_diff"
    /\ IF aci.existing = {}
       THEN aci' = [aci EXCEPT !.config = [attrs |-> aci.proposed, nonempty |-> TRUE]]
       ELSE \E o \in aci.existing :
              LET d == Diff(aci.proposed, o)
              IN  aci' = [aci EXCEPT !.config =
                             [attrs |-> d, nonempty |-> \E k \in AttrNames : d[k] # None]]
    /\ calls' = Append(calls, "get_diff")
    /\ pc' = "post_config"
    /\ UNCHANGED <<args, params, ctrlr_mo, ctrlr_rn, result, remote, remote0, prev, run>>

\* Where a write of the client goes: to the object when one is addressed, to
\* the path of aci_rn when module_object is unset.
Target == IF aci.url.module_object # None
          THEN aci.url.module_object
          ELSE "uni/" \o aci.url.aci_rn

\* A write the client sends for main(), leaving the APIC as `after`.  A write
\* for an unset module_object the APIC either takes or rejects, and the client
\* reports a rejection with fail_json.
Mutate(call, after) ==
    \E accepted \in BOOLEAN :
        /\ accepted \/ aci.url.module_object = None
        /\ calls' = Append(calls, call)
        /\ IF accepted
           THEN /\ remote' = after
                /\ aci' = [aci EXCEPT !.changed = TRUE, !.writes = @ + 1]
                /\ pc' = "exit_json"
                /\ UNCHANGED result
           ELSE /\ aci' = [aci EXCEPT !.writes = @ + 1]
                /\ result' = [NoResult EXCEPT !.outcome = "fail_json", !.error = "remote",
                                              !.previous = aci.existing]
                /\ pc' = "done"
                /\ UNCHANGED remote

\* aci.post_config(): nothing is sent for an empty diff
PostConfig ==
    /\ pc = "post_config"
    /\ IF aci.config.nonempty
       THEN Mutate("post_config", Posted(remote, Target, aci.config.attrs))
       ELSE /\ calls' = Append(calls, "post_config")
            /\ pc' = "exit_json"
            /\ UNCHANGED <<aci, result, remote>>
    /\ UNCHANGED <<args, params, ctrlr_mo, ctrlr_rn, remote0, prev, run>>

\* aci.delete_config(): nothing is sent when nothing exists
DeleteConfig ==
    /\ pc = "delete_config"
    /\ IF aci.existing # {}
       THEN Mutate("delete_config", Deleted(remote, Target))
       ELSE /\ calls' = Append(calls, "delete_config")
            /\ pc' = "exit_json"
            /\ UNCHANGED <<aci, result, remote>>
    /\ UNCHANGED <<args, params, ctrlr_mo, ctrlr_rn, remote0, prev, run>>

\* aci.exit_json(): previous is what get_existing read; current is read again
\* after a present or absent, and is that same read for a query.
ExitJson ==
    /\ pc = "exit_json"
    /\ calls' = Append(calls, "exit_json")
    /\ result' = [ outcome  |-> "exit_json",
                   error    |-> "none",
                   changed  |-> aci.changed,
                   previous |-> aci.existing,
                   current  |-> IF params.state \in {"present", "absent"}
                                THEN Read(remote, aci.url)
                                ELSE aci.existing ]
    /\ pc' = "done"
    /\ UNCHANGED <<args, params, ctrlr_mo, ctrlr_rn, aci, remote, remote0, prev, run>>

\* The next task of the play invokes the module again, against the same APIC.
NextInvocation ==
    /\ pc = "done"
    /\ run < MaxRuns
    /\ prev' = [ args |-> args, result |-> result, config |-> aci.config,
                 writes |-> aci.writes ]
    /\ args' \in SeqArgs
    /\ pc' = "start"
    /\ params' = NoParams
    /\ ctrlr_mo' = None
    /\ ctrlr_rn' = None
    /\ aci' = NewAci
    /\ calls' = <<>>
    /\ result' = NoResult
    /\ remote0' = remote
    /\ run' = run + 1
    /\ UNCHANGED remote

Main ==
    \/ Validate
    \/ BuildIdentifier
    \/ ConstructUrl
    \/ GetExisting
    \/ Payload
    \/ GetDiff
    \/ PostConfig
    \/ DeleteConfig
    \/ ExitJson

Next == Main

NextSeq == Main \/ NextInvocation

Spec == Init /\ [][Next]_vars

SpecSeq == InitSeq /\ [][NextSeq]_vars

-----------------------------------------------------------------------------
(* Vocabulary of the properties *)

IsPrefix(s, t) == Len(s) <= Len(t) /\ SubSeq(t, 1, Len(s)) = s

Contains(s, t) == \E i \in 1..(Len(s) - Len(t) + 1) : SubSeq(s, i, i + Len(t) - 1) = t

EndsWith(s, t) == Len(t) <= Len(s) /\ SubSeq(s, Len(s) - Len(t) + 1, Len(s)) = t

Count(call) == Cardinality({ i \in DOMAIN calls : calls[i] = call })

\* The state the task asks for: present when the task does not say.
StateOf(a) == IF "state" \in DOMAIN a THEN a["state"] ELSE "present"

\* The task gives no domain, under the option's name or an alias of it.
DomainOmitted(a) == DOMAIN a \cap {"domain", "domain_name", "domain_profile"} = {}

Ended == pc = "done"

Validated == pc # "start" /\ result.error # "configuration"

ReachedClient == calls # <<>>

\* The calls of one complete invocation, per state.
ExpectedCalls(st) ==
    <<"construct_url", "get_existing">>
    \o (IF st = "present" THEN <<"payload", "get_diff", "post_config">>
        ELSE IF st = "absent" THEN <<"delete_config">>
        ELSE <<>>)
    \o <<"exit_json">>

\* The display token the specification gives each provider.
DisplayToken ==
    [ cloudfoundry |-> "CloudFoundry", kubernetes |-> "Kubernetes",
      microsoft |-> "Microsoft", openshift |-> "OpenShift",
      openstack |-> "OpenStack", redhat |-> "Redhat", vmware |-> "VMware" ]

-----------------------------------------------------------------------------
(* The properties *)

\* C1: an invocation whose state is present or absent (present by default) and
\* that supplies no domain ends in a configuration error, and no client call
\* has been made nor anything sent to the APIC, whatever the other arguments.
C1_DomainRequired ==
    (pc # "start" /\ StateOf(args) \in {"present", "absent"} /\ DomainOmitted(args))
    => /\ Ended
       /\ result.outcome = "fail_json"
       /\ result.error = "configuration"
       /\ calls = <<>>
       /\ aci.writes = 0
       /\ remote = remote0

C1_Witness ==
    /\ Ended
    /\ StateOf(args) = "absent"
    /\ DomainOmitted(args)
    /\ "vm_provider" \notin DOMAIN args
    /\ "name" \in DOMAIN args
    /\ result.error = "configuration"

\* C2: every invocation whose arguments validate ends through exit_json or a
\* structured failure (fail_json), never in an unhandled fault.
C2_NoUnhandledFault ==
    (Ended /\ Validated) => result.outcome \in {"exit_json", "fail_json"}

\* C3: the client calls of an invocation are, in order, construct_url,
\* get_existing, then payload, get_diff, post_config (present) or delete_config
\* (absent) or nothing (query), then exit_json; an invocation that exits through
\* exit_json has made exactly these calls.
C3_CallOrder ==
    ReachedClient =>
        /\ IsPrefix(calls, ExpectedCalls(params.state))
        /\ result.outcome = "exit_json" => calls = ExpectedCalls(params.state)
        /\ ~ (Count("delete_config") > 0 /\ Count("payload") + Count("get_diff") + Count("post_config") > 0)

C3_Witness ==
    /\ result.outcome = "exit_json"
    /\ params.state = "present"
    /\ calls = <<"construct_url", "get_existing", "payload", "get_diff", "post_config", "exit_json">>
    /\ result.changed

\* C4: a query calls none of payload, get_diff, post_config, delete_config,
\* sends no write, leaves the APIC as it found it, and reports exactly what its
\* one get_existing read.
C4_QueryReadsOnly ==
    params.state = "query" =>
        /\ \A c \in {"payload", "get_diff", "post_config", "delete_config"} : Count(c) = 0
        /\ aci.writes = 0
        /\ remote = remote0
        /\ result.outcome = "exit_json" =>
              /\ Count("get_existing") = 1
              /\ result.current = Read(remote0, aci.url)
              /\ result.previous = result.current
              /\ ~ result.changed

C4_Witness ==
    /\ params.state = "query"
    /\ result.outcome = "exit_json"
    /\ result.current = {Ctrl1}
    /\ remote = {Ctrl1}

\* C5: every invocation whose arguments validate has, when it ends, read the
\* current state exactly once and called at most one of post_config and
\* delete_config, at most once.
C5_OneReadAtMostOneWrite ==
    (Ended /\ Validated) =>
        /\ Count("get_existing") = 1
        /\ Count("post_config") + Count("delete_config") <= 1

\* C6: of two successive invocations with state present and the same arguments,
\* the second computes an empty diff and sends no write, and both report the
\* same current state.
C6_PresentTwice ==
    (Ended /\ run > 1 /\ args = prev.args /\ StateOf(args) = "present" /\ Validated)
    => /\ ~ aci.config.nonempty
       /\ aci.writes = 0
       /\ result.outcome = "exit_json"
       /\ prev.result.outcome = "exit_json"
       /\ result.current = prev.result.current

\* C7: an invocation with state absent for a controller (provider, domain and
\* name given) that the APIC does not hold succeeds without error, reports no
\* change and leaves the APIC as it found it; so does a second absent right
\* after a first one.
C7_AbsentOnAbsent ==
    (/\ Ended
     /\ params.state = "absent"
     /\ params.name # None /\ params.domain # None /\ params.vm_provider # None
     /\ \A o \in remote0 :
            o.dn # "uni/vmmp-" \o DisplayToken[params.vm_provider] \o "/dom-"
                    \o params.domain \o "/ctrlr-" \o params.name)
    => /\ result.outcome = "exit_json"
       /\ result.error = "none"
       /\ ~ result.changed
       /\ aci.writes = 0
       /\ remote = remote0

C7_Witness ==
    /\ Ended
    /\ run = 2
    /\ args = prev.args
    /\ params.state = "absent"
    /\ params.name = "ctrl1"
    /\ prev.result.changed
    /\ remote = {}
    /\ result.outcome = "exit_json"
    /\ ~ result.changed

\* C8: with a name given, the identifier handed to the client is
\* uni/vmmp-<token>/dom-<domain>/ctrlr-<name> with the provider's own display
\* token, no other provider's token occurs in it, and distinct providers have
\* distinct tokens.  (Domains and names here are ordinary names, none of which
\* spells a provider token itself.)
C8_ProviderToken ==
    /\ \A p, q \in Providers : p # q => VM_PROVIDER_MAPPING[p] # VM_PROVIDER_MAPPING[q]
    /\ (ReachedClient /\ params.name # None) =>
         /\ aci.url.module_object =
               "uni/vmmp-" \o DisplayToken[params.vm_provider] \o "/dom-"
                   \o Str(params.domain) \o "/ctrlr-" \o params.name
         /\ \A q \in Providers \ {params.vm_provider} :
               ~ Contains(aci.url.module_object, DisplayToken[q])

C8_Witness ==
    /\ ReachedClient
    /\ params.vm_provider = "openshift"
    /\ aci.url.module_object = "uni/vmmp-OpenShift/dom-dom2/ctrlr-ctrl1"

\* C9 as stated: with name omitted the identifier handed to construct_url is
\* unset and no identifier string passed to the client carries a controller
\* suffix; with name given the identifier is set and ends in ctrlr-<name>.
C9_NoControllerSuffix ==
    ReachedClient =>
        /\ params.name = None =>
              /\ aci.url.module_object = None
              /\ ~ Contains(aci.url.aci_rn, "ctrlr-")
        /\ params.name # None =>
              /\ aci.url.module_object # None
              /\ EndsWith(aci.url.module_object, "/ctrlr-" \o params.name)

\* C9 amended: with name omitted, in every state, module_object is unset while
\* the aci_rn passed in the same call still ends in ctrlr-None; with name given
\* module_object is set and ends in ctrlr-<name>, as does aci_rn.
C9_ModuleObjectUnset ==
    ReachedClient =>
        /\ params.name = None =>
              /\ aci.url.module_object = None
              /\ EndsWith(aci.url.aci_rn, "/ctrlr-None")
        /\ params.name # None =>
              /\ aci.url.module_object # None
              /\ EndsWith(aci.url.module_object, "/ctrlr-" \o params.name)
              /\ EndsWith(aci.url.aci_rn, "/ctrlr-" \o params.name)

C9_Witness ==
    /\ ReachedClient
    /\ params.name = None
    /\ params.state = "absent"
    /\ aci.url.module_object = None
    /\ aci.url.aci_rn = "vmmp-Redhat/dom-dom1/ctrlr-None"

\* C10: a value supplied under a documented alias of a field reaches the module
\* as that field's value (controller_name as name, credential_name as
\* credential, ...), and as no other field's.
C10_AliasesRename ==
    pc # "start" =>
        \A f \in Fields : \A a \in (DOCUMENTATION_aliases[f] \ Fields) :
            a \in DOMAIN args =>
                /\ result.error # "configuration" => params[f] = args[a]
                /\ \A g \in Fields \ {f} : g \notin DOMAIN args => params[g] # args[a]
                /\ a \notin Unsupported(args)

====
